---- MODULE Spec2Model ----
(***************************************************************************)
(* Batch annotation jobs of AccuAnnotate-Web: BatchJobManager (src/app.py) *)
(* and the remote labeling call of GPTAnnotator (src/utils/annotator.py). *)
(***************************************************************************)
EXTENDS Integers, Sequences, FiniteSets, TLC

\* ---------------------------------------------------------------- bounds
MaxJobs == 2
MaxBatch == 2
max_workers == 2
MaxStreams == 2
MaxBeats == 1
MaxQueries == 2

\* ---------------------------------------------------------------- inputs
JobIds == 1..MaxJobs
TaskIds == JobIds \X (1..MaxBatch)
StreamIds == 1..MaxStreams

\* Image paths handed to create_job.  "a.png" and "b.png" lie under the
\* upload folder; "/c.png" is an existing file outside of it (batch_annotate
\* joins image_folder / name, which an absolute name replaces).
FolderImages == {"a.png", "b.png"}
ImagePaths == FolderImages \cup {"/c.png"}

\* Path.relative_to(image_folder) raises ValueError for a path that is not
\* under the folder.
RelativeToRaises(p) == p \notin FolderImages

\* Stored annotation files: 0 is no file, OldAnnotation a file that was there
\* before any job, FileOf(t) the file written by task t.
NoFile == 0
OldAnnotation == 1
FileOf(t) == 10 * t[1] + t[2]

\* Number of hints the detector and ranker return for an image.
HintCounts == {0, 2}
BatchHintCount == 2

NoJob == [status |-> "none", total |-> 0, completed |-> 0, success |-> 0,
          skipped |-> 0, errors |-> 0, results |-> <<>>, force |-> FALSE]

Batches == UNION {[1..n -> ImagePaths] : n \in 0..MaxBatch}

VARIABLES
    jobs,        \* self.jobs: job id -> job record (NoJob when absent)
    job_events,  \* self.job_events: job id -> queue of event payloads
    lock,        \* self.lock: 0 when free, else the job whose watcher holds it
    images,      \* the images argument of each create_job call
    create_pc,   \* position of each create_job call
    workq,       \* the executor's work queue
    task,        \* per submitted task: position and locals
    monitor,     \* position of each job's _monitor_job_done thread
    files,       \* annotation folder: relative path -> stored annotation
    streams,     \* per sse_stream call: its job, position and what it yielded
    api,         \* the _call_openai_api invocation that is followed step by step
    status_replies, \* what batch_status answered, call by call
    ann_pc,      \* position of the hint pipeline that is followed on its own
    raw_elems,   \* the detector's raw elements
    max_elements, \* the limit handed to _rank_and_limit_hints
    elems,       \* _normalize_omni_elements(raw_elems)
    ranked,      \* the hints: _rank_and_limit_hints(elems, max_elements)
    reranked,    \* _rank_and_limit_hints(ranked, max_elements)
    model_out,   \* the elements the remote model claimed
    fixed,       \* the elements _snap_to_hint_boxes returns
    sampler,     \* _build_crops: its settings and locals
    crop_tags,   \* _build_crops: the tags of the crops emitted
    refixed,     \* _snap_to_hint_boxes applied to the elements it returned
    sampler2,    \* _build_crops called again on the same image and hints
    crop_tags2   \* the tags of the crops of the second call

\* The variables of the hint pipeline, and those of the batch jobs.
annVars == <<ann_pc, raw_elems, max_elements, elems, ranked, reranked, model_out,
             fixed, sampler, crop_tags, refixed, sampler2, crop_tags2>>

jobVars == <<jobs, job_events, lock, images, create_pc, workq, task, monitor, files,
             streams, api, status_replies>>

vars == <<jobVars, annVars>>

NoTask == [pc |-> "none", status |-> "", hints |-> 0, seen |-> 0,
           det |-> 0, remote |-> 0, writes |-> 0, emitted |-> 0,
           detector |-> "", opened |-> 0]

NoStream == [job |-> 0, pc |-> "closed", got |-> <<>>, beats |-> 0]

\* max_completion_tokens as GPTAnnotator.__init__ sets it without any
\* configuration (line 171).
DefaultMaxCompletionTokens == 4096

IdleApi(max_ct) ==
    [pc |-> "idle", max_completion_tokens |-> max_ct, attempt_index |-> 0,
     sent |-> <<>>, resps |-> <<>>]

JobsInit ==
    /\ jobs = [j \in JobIds |-> NoJob]
    /\ job_events = [j \in JobIds |-> <<>>]
    /\ lock = 0
    /\ images = [j \in JobIds |-> <<>>]
    /\ create_pc = [j \in JobIds |-> "none"]
    /\ workq = <<>>
    /\ task = [t \in TaskIds |-> NoTask]
    /\ monitor = [j \in JobIds |-> "none"]
    /\ files = [p \in FolderImages |-> IF p = "a.png" THEN OldAnnotation ELSE NoFile]
    /\ streams = [s \in StreamIds |-> NoStream]
    /\ status_replies = <<>>

\* _build_crops before it is called: its settings and locals.
NoSampler == [max_shards |-> 0, topk |-> 0, dual_topk |-> 0, seed |-> "",
              head |-> <<>>, keep_idx |-> <<>>, population |-> <<>>, quota |-> 0,
              picks |-> <<>>]

\* No hint pipeline is followed on its own.
AnnIdle ==
    /\ ann_pc = "idle"
    /\ raw_elems = <<>>
    /\ max_elements = 0
    /\ elems = <<>>
    /\ ranked = <<>>
    /\ reranked = <<>>
    /\ model_out = <<>>
    /\ fixed = <<>>
    /\ sampler = NoSampler
    /\ crop_tags = <<>>
    /\ refixed = <<>>
    /\ sampler2 = NoSampler
    /\ crop_tags2 = <<>>

Init ==
    /\ JobsInit
    /\ api = IdleApi(DefaultMaxCompletionTokens)
    /\ AnnIdle

\* ---------------------------------------------------------------- helpers
Created(j) == jobs[j].status # "none"

Running(t) == task[t].pc \notin {"none", "queued", "done", "crashed"}

NumRunning == Cardinality({t \in TaskIds : Running(t)})

JobOf(t) == t[1]

ImageOf(t) == images[t[1]][t[2]]

\* _emit: put_nowait on the job's unbounded queue.
_emit(q, payload) == Append(q, payload)

\* An event payload.  `task` is not in the payload: it names the emitting
\* task, which `filename` alone does not when a batch lists an image twice.
Event(type, t, status, completed, hints) ==
    [type |-> type, task |-> t, status |-> status, completed |-> completed,
     hints |-> hints]

\* ---------------------------------------------------------------- create_job
\* create_job, lines 76-89: register the job and its queue under the lock.
CreateJob(j, imgs, force) ==
    /\ lock = 0
    /\ ~Created(j)
    /\ \A k \in JobIds : k < j => Created(k)
    /\ jobs' = [jobs EXCEPT ![j] =
            [status |-> "running", total |-> Len(imgs), completed |-> 0,
             success |-> 0, skipped |-> 0, errors |-> 0, results |-> <<>>,
             force |-> force]]
    /\ images' = [images EXCEPT ![j] = imgs]
    /\ create_pc' = [create_pc EXCEPT ![j] = "submit"]
    /\ UNCHANGED <<job_events, lock, workq, task, monitor, files, streams, api, status_replies, annVars>>

\* create_job, lines 92-93: submit the next image to the executor.
SubmitTask(j) ==
    /\ create_pc[j] = "submit"
    /\ \E i \in 1..MaxBatch :
        /\ i <= Len(images[j])
        /\ task[<<j, i>>].pc = "none"
        /\ \A k \in 1..(i - 1) : task[<<j, k>>].pc # "none"
        /\ task' = [task EXCEPT ![<<j, i>>].pc = "queued"]
        /\ workq' = Append(workq, <<j, i>>)
    /\ UNCHANGED <<jobs, job_events, lock, images, create_pc, monitor, files, streams, api, status_replies, annVars>>

\* create_job, lines 96-97: all images submitted, start the watcher thread.
StartMonitor(j) ==
    /\ create_pc[j] = "submit"
    /\ \A i \in 1..Len(images[j]) : task[<<j, i>>].pc # "none"
    /\ create_pc' = [create_pc EXCEPT ![j] = "returned"]
    /\ monitor' = [monitor EXCEPT ![j] = "poll"]
    /\ UNCHANGED <<jobs, job_events, lock, images, workq, task, files, streams, api, status_replies, annVars>>

\* ---------------------------------------------------------------- watcher
\* _monitor_job_done, lines 102-116: under the lock, completed >= total sets
\* the status and puts the summary event.  (Otherwise the thread releases the
\* lock, sleeps and polls again, which changes nothing.)
MonitorReadyEarly(job) == job.completed + 1 >= job.total

MonitorReady(job) == job.completed >= job.total

MonitorComplete(j) ==
    /\ monitor[j] = "poll"
    /\ lock = 0
    /\ MonitorReady(jobs[j])
    /\ lock' = j
    /\ jobs' = [jobs EXCEPT ![j].status = "complete"]
    /\ job_events' = [job_events EXCEPT ![j] =
            _emit(@, Event("complete", <<0, 0>>, "", 0, 0))]
    /\ monitor' = [monitor EXCEPT ![j] = "end"]
    /\ UNCHANGED <<images, create_pc, workq, task, files, streams, api, status_replies, annVars>>

MonitorEndNoMarker(j) ==
    /\ monitor[j] = "end"
    /\ lock = j
    /\ lock' = 0
    /\ monitor' = [monitor EXCEPT ![j] = "done"]
    /\ UNCHANGED <<jobs, job_events, images, create_pc, workq, task, files, streams, api, status_replies, annVars>>

\* _monitor_job_done, lines 118-119: put the end marker, release the lock.
MonitorEnd(j) ==
    /\ monitor[j] = "end"
    /\ lock = j
    /\ job_events' = [job_events EXCEPT ![j] =
            _emit(@, Event("end", <<0, 0>>, "", 0, 0))]
    /\ lock' = 0
    /\ monitor' = [monitor EXCEPT ![j] = "done"]
    /\ UNCHANGED <<jobs, images, create_pc, workq, task, files, streams, api, status_replies, annVars>>

\* ---------------------------------------------------------------- remote call
\* What one remote request of _call_openai_api can come back with: the request
\* raises (after the code-interpreter fallbacks of lines 391-402, which resend
\* the same kwargs), or a response with a content and a finish reason.
\*   content "json"      parses and reconciles
\*   content "malformed" parses, but _snap_to_hint_boxes raises on it
\*   content "garbage"   does not parse
\*   content "empty"     None, "" or blank
Contents == {"json", "malformed", "garbage", "empty"}
FinishReasons == {"stop", "length"}
Responses == {[fail |-> TRUE, content |-> "empty", finish |-> "stop"]}
             \cup [fail : {FALSE}, content : Contents, finish : FinishReasons]

Min(a, b) == IF a < b THEN a ELSE b
Max(a, b) == IF a > b THEN a ELSE b

\* line 386: the per-attempt limits.
attempts(max_ct) == <<max_ct, Min(Max(max_ct * 2, 2048), 8192)>>

\* build_chat_kwargs / build_resp_kwargs, lines 357 and 379: the token
\* parameter that is sent.
build_kwargs_limit(limit, max_ct) == max_ct

\* Lines 406-452 for one attempt (attempt_index counts from 0): what the loop
\* does with the response r.
AttemptOutcomeRetryAny(attempt_index, r) ==
    IF r.fail THEN "raise"
    ELSE IF r.content \in {"garbage", "empty"}
         THEN IF attempt_index = 0 THEN "continue" ELSE "raise"
    ELSE IF r.content = "malformed" THEN "raise"
    ELSE "return"

AttemptOutcome(attempt_index, r) ==
    IF r.fail THEN "raise"
    ELSE IF r.content = "empty" /\ r.finish = "length" /\ attempt_index = 0
         THEN "continue"
    ELSE IF r.content \in {"garbage", "empty"}
         THEN IF r.finish = "length" /\ attempt_index = 0 THEN "continue" ELSE "raise"
    ELSE IF r.content = "malformed" THEN "raise"
    ELSE "return"

\* The whole loop of lines 388-454 over the responses rs[1], rs[2]:
\* the result and the number of attempts made.
_call_openai_api(rs) ==
    LET o1 == AttemptOutcome(0, rs[1])
        o2 == AttemptOutcome(1, rs[2])
    IN  IF o1 # "continue" THEN [ok |-> o1 = "return", attempts |-> 1]
        ELSE IF o2 = "continue" THEN [ok |-> FALSE, attempts |-> 2]
        ELSE [ok |-> o2 = "return", attempts |-> 2]

\* ---------------------------------------------------------------- worker task
\* _process_image_task, lines 131-140: path resolution (outside any try) and
\* the skip test.
SkipTestForced(t) == files[ImageOf(t)] # NoFile /\ jobs[JobOf(t)].force

SkipTest(t) == files[ImageOf(t)] # NoFile /\ ~jobs[JobOf(t)].force

\* ThreadPoolExecutor: an idle worker takes the oldest queued task and runs
\* _process_image_task up to the skip test of line 140.  An exception of the
\* path resolution ends the task in the executor's future.
StartTask(t, workers) ==
    /\ workq # <<>>
    /\ t = Head(workq)
    /\ NumRunning < workers
    /\ workq' = Tail(workq)
    /\ IF RelativeToRaises(ImageOf(t))
       THEN task' = [task EXCEPT ![t].pc = "crashed"]
       ELSE IF SkipTest(t)
            THEN task' = [task EXCEPT ![t].pc = "record", ![t].status = "skipped"]
            ELSE task' = [task EXCEPT ![t].pc = "pre_start"]
    /\ UNCHANGED <<jobs, job_events, lock, images, create_pc, monitor, files, streams, api, status_replies, annVars>>

\* line 158
PreprocessStartSilent(t) ==
    /\ task[t].pc = "pre_start"
    /\ task' = [task EXCEPT ![t].pc = "detect"]
    /\ UNCHANGED <<jobs, job_events, lock, images, create_pc, workq, monitor, files, streams, api, status_replies, annVars>>

PreprocessStart(t) ==
    /\ task[t].pc = "pre_start"
    /\ job_events' = [job_events EXCEPT ![JobOf(t)] =
            _emit(@, Event("preprocess_start", t, "", 0, 0))]
    /\ task' = [task EXCEPT ![t].pc = "detect", ![t].emitted = @ + 1]
    /\ UNCHANGED <<jobs, lock, images, create_pc, workq, monitor, files, streams, api, status_replies, annVars>>

\* What the detector does with an image (annotator.py, lines 291-320): no
\* parser instance or no HTTP client, an exception that the handlers of lines
\* 300 and 319 swallow, a result none of whose elements survives
\* _normalize_omni_elements, or a result with valid candidates.
DetectorOutcomes == {"unavailable", "failed", "no valid candidate", "candidates"}

\* _compute_preprocess_hints, lines 289-322: the number of hints returned
\* when the detector's outcome is o and n candidates would be ranked.  elems
\* stays [] in every outcome but the last, and ranking [] gives [].
_compute_preprocess_hints_partial(o, n) == IF o = "failed" THEN BatchHintCount ELSE n

_compute_preprocess_hints(o, n) == IF o = "candidates" THEN n ELSE 0

\* lines 159-161: _compute_preprocess_hints returns h hints and `preprocessed`
\* is emitted, or an exception reaches the handler of line 161.
Detect(t, counts) ==
    /\ task[t].pc = "detect"
    /\ \/ \E n \in counts, o \in DetectorOutcomes :
            /\ (o = "candidates") <=> (n > 0)
            /\ LET h == _compute_preprocess_hints(o, n) IN
               /\ job_events' = [job_events EXCEPT ![JobOf(t)] =
                       _emit(@, Event("preprocessed", t, "", 0, h))]
               /\ task' = [task EXCEPT ![t].pc = "request", ![t].hints = h,
                                       ![t].det = 1, ![t].emitted = @ + 1,
                                       ![t].detector = o]
       \/ /\ task' = [task EXCEPT ![t].pc = "record", ![t].status = "error",
                                  ![t].det = 1]
          /\ UNCHANGED job_events
    /\ UNCHANGED <<jobs, lock, images, create_pc, workq, monitor, files, streams, api, status_replies, annVars>>

\* annotate_with_hints (lines 275-280) as called at line 181: Image.open may
\* raise; no hints gives the empty annotation without a remote call;
\* otherwise the remote call loop runs over the responses rs.
annotate_with_hints(hints, rs) ==
    IF hints = 0 THEN [ok |-> TRUE, attempts |-> 0] ELSE _call_openai_api(rs)

\* lines 180-181: emit request_sent, then annotate_with_hints, which touches
\* nothing shared.
RequestSent(t) ==
    /\ task[t].pc = "request"
    /\ job_events' = [job_events EXCEPT ![JobOf(t)] =
            _emit(@, Event("request_sent", t, "", 0, 0))]
    /\ \/ task' = [task EXCEPT ![t].pc = "record", ![t].status = "error",
                               ![t].hints = 0, ![t].emitted = @ + 1]
       \/ \E rs \in Responses \X Responses :
              LET r == annotate_with_hints(task[t].hints, rs) IN
              task' = [task EXCEPT ![t].pc = IF r.ok THEN "write" ELSE "record",
                                   ![t].status = IF r.ok THEN "" ELSE "error",
                                   ![t].hints = 0,
                                   ![t].remote = IF r.attempts > 0 THEN 1 ELSE 0,
                                   ![t].opened = 1,
                                   ![t].emitted = @ + 1]
    /\ UNCHANGED <<jobs, lock, images, create_pc, workq, monitor, files, streams, api, status_replies, annVars>>

\* lines 182-189: write the annotation file.
WriteThenFail(t) ==
    /\ task[t].pc = "write"
    /\ files' = [files EXCEPT ![ImageOf(t)] = FileOf(t)]
    /\ task' = [task EXCEPT ![t].pc = "record", ![t].status = "error",
                            ![t].writes = 1]
    /\ UNCHANGED <<jobs, job_events, lock, images, create_pc, workq, monitor, streams, api, status_replies, annVars>>

Write(t) ==
    /\ task[t].pc = "write"
    /\ files' = [files EXCEPT ![ImageOf(t)] = FileOf(t)]
    /\ task' = [task EXCEPT ![t].pc = "record", ![t].status = "success",
                            ![t].writes = 1]
    /\ UNCHANGED <<jobs, job_events, lock, images, create_pc, workq, monitor, streams, api, status_replies, annVars>>

\* The locked blocks of lines 141-146, 162-167, 190-195 and 204-209.
\* (`task` in the result record names the recording task; it is not in the
\* code's record.)
RecordOutcomeNoErrors(job, t, filename, status) ==
    [job EXCEPT !.completed = @ + 1,
                !.success = IF status = "success" THEN @ + 1 ELSE @,
                !.skipped = IF status = "skipped" THEN @ + 1 ELSE @,
                !.results = Append(@, [task |-> t, filename |-> filename,
                                       status |-> status])]

RecordOutcome(job, t, filename, status) ==
    [job EXCEPT !.completed = @ + 1,
                !.success = IF status = "success" THEN @ + 1 ELSE @,
                !.skipped = IF status = "skipped" THEN @ + 1 ELSE @,
                !.errors = IF status = "error" THEN @ + 1 ELSE @,
                !.results = Append(@, [task |-> t, filename |-> filename,
                                       status |-> status])]

Record(t) ==
    /\ task[t].pc = "record"
    /\ lock = 0
    /\ jobs' = [jobs EXCEPT ![JobOf(t)] = RecordOutcome(@, t, ImageOf(t), task[t].status)]
    /\ task' = [task EXCEPT ![t].pc = "read"]
    /\ UNCHANGED <<job_events, lock, images, create_pc, workq, monitor, files, streams, api, status_replies, annVars>>

\* The payload of image_done is built before _emit is called: completed and
\* total are read from self.jobs without the lock (lines 151-152, 173-174,
\* 200-201, 215-216).
ReadCompleted(t) ==
    /\ task[t].pc = "read"
    /\ task' = [task EXCEPT ![t].pc = "put", ![t].seen = jobs[JobOf(t)].completed]
    /\ UNCHANGED <<jobs, job_events, lock, images, create_pc, workq, monitor, files, streams, api, status_replies, annVars>>

\* _emit of the image_done payload (lines 147, 168, 196, 210); the task ends.
PutImageDone(t) ==
    /\ task[t].pc = "put"
    /\ job_events' = [job_events EXCEPT ![JobOf(t)] =
            _emit(@, Event("image_done", t, task[t].status, task[t].seen, 0))]
    /\ task' = [task EXCEPT ![t].pc = "done", ![t].seen = 0, ![t].emitted = @ + 1]
    /\ UNCHANGED <<jobs, lock, images, create_pc, workq, monitor, files, streams, api, status_replies, annVars>>

\* ---------------------------------------------------------------- specification
TaskStep(t, workers) ==
    \/ StartTask(t, workers)
    \/ PreprocessStart(t)
    \/ Detect(t, {BatchHintCount})
    \/ RequestSent(t)
    \/ Write(t)
    \/ Record(t)
    \/ ReadCompleted(t)
    \/ PutImageDone(t)

\* Every step but the creation of a job; `workers` is the pool size.
JobStep(workers) ==
    \/ \E j \in JobIds : SubmitTask(j)
    \/ \E j \in JobIds : StartMonitor(j)
    \/ \E j \in JobIds : MonitorComplete(j)
    \/ \E j \in JobIds : MonitorEnd(j)
    \/ \E t \in TaskIds : TaskStep(t, workers)

\* One job over a batch of up to MaxBatch images.
Next ==
    \/ \E imgs \in Batches, force \in BOOLEAN : CreateJob(1, imgs, force)
    \/ JobStep(max_workers)

Spec == Init /\ [][Next]_vars

\* Scheduling: the thread of create_job, every pool worker and every watcher
\* thread keeps being scheduled, and the lock is released after every block.
Fairness ==
    /\ \A j \in JobIds : WF_vars(SubmitTask(j) \/ StartMonitor(j))
    /\ \A j \in JobIds : WF_vars(MonitorComplete(j) \/ MonitorEnd(j))
    /\ \A t \in TaskIds : WF_vars(TaskStep(t, max_workers))

FairSpec == Init /\ [][Next]_vars /\ Fairness

\* ---------------------------------------------------------------- one image, step by step
\* The same task with the remote call loop of _call_openai_api followed
\* attempt by attempt, for the task <<1, 1>> of a one-image job.
TokenConfigs == {1024, 2048, 4096, 8192, 16384}

OneTask == <<1, 1>>

\* line 180
RequestSentOne(t) ==
    /\ task[t].pc = "request"
    /\ job_events' = [job_events EXCEPT ![JobOf(t)] =
            _emit(@, Event("request_sent", t, "", 0, 0))]
    /\ task' = [task EXCEPT ![t].pc = "annotate", ![t].emitted = @ + 1]
    /\ UNCHANGED <<jobs, lock, images, create_pc, workq, monitor, files, streams, api, status_replies, annVars>>

\* annotate_with_hints, lines 276-280, and _call_openai_api up to line 387.
AnnotateStart(t) ==
    /\ task[t].pc = "annotate"
    /\ api.pc = "idle"
    /\ \/ /\ task' = [task EXCEPT ![t].pc = "record", ![t].status = "error",
                                  ![t].hints = 0]
          /\ UNCHANGED api
       \/ /\ task[t].hints = 0
          /\ task' = [task EXCEPT ![t].pc = "write", ![t].opened = 1]
          /\ UNCHANGED api
       \/ /\ task[t].hints # 0
          /\ task' = [task EXCEPT ![t].pc = "api", ![t].opened = 1]
          /\ api' = [api EXCEPT !.pc = "send", !.attempt_index = 0]
    /\ UNCHANGED <<jobs, job_events, lock, images, create_pc, workq, monitor, files,
                   streams, status_replies, annVars>>

\* lines 388-405: the request of this attempt goes out with the token
\* parameter of build_chat_kwargs(max_ct) / build_resp_kwargs(max_ct).
ApiSend(t) ==
    /\ task[t].pc = "api"
    /\ api.pc = "send"
    /\ api' = [api EXCEPT !.pc = "wait",
            !.sent = Append(@, build_kwargs_limit(
                        attempts(api.max_completion_tokens)[api.attempt_index + 1],
                        api.max_completion_tokens))]
    /\ task' = [task EXCEPT ![t].remote = 1]
    /\ UNCHANGED <<jobs, job_events, lock, images, create_pc, workq, monitor, files,
                   streams, status_replies, annVars>>

\* lines 406-454: the response r comes back (or the request raises): return
\* the reconciled annotation, raise, or go round the loop once more.
ApiReceive(t, r) ==
    /\ task[t].pc = "api"
    /\ api.pc = "wait"
    /\ LET o == AttemptOutcome(api.attempt_index, r)
           last == api.attempt_index + 1 >= Len(attempts(api.max_completion_tokens))
       IN  /\ api' = [api EXCEPT
                    !.resps = Append(@, r),
                    !.attempt_index = IF o = "continue" THEN @ + 1 ELSE @,
                    !.pc = IF o = "return" THEN "returned"
                           ELSE IF o = "raise" \/ last THEN "raised" ELSE "send"]
           /\ task' = [task EXCEPT
                    ![t].pc = IF o = "return" THEN "write"
                              ELSE IF o = "raise" \/ last THEN "record" ELSE "api",
                    ![t].status = IF o = "return" \/ (o = "continue" /\ ~last)
                                  THEN "" ELSE "error",
                    ![t].hints = IF o = "continue" /\ ~last THEN @ ELSE 0]
    /\ UNCHANGED <<jobs, job_events, lock, images, create_pc, workq, monitor, files,
                   streams, status_replies, annVars>>

TaskStepOne(t) ==
    \/ StartTask(t, max_workers)
    \/ PreprocessStart(t)
    \/ Detect(t, HintCounts)
    \/ RequestSentOne(t)
    \/ AnnotateStart(t)
    \/ ApiSend(t)
    \/ \E r \in Responses : ApiReceive(t, r)
    \/ Write(t)
    \/ Record(t)
    \/ ReadCompleted(t)
    \/ PutImageDone(t)

InitOne ==
    /\ JobsInit
    /\ \E max_ct \in TokenConfigs : api = IdleApi(max_ct)
    /\ AnnIdle

NextOne ==
    \/ \E img \in ImagePaths, force \in BOOLEAN : CreateJob(1, <<img>>, force)
    \/ SubmitTask(1)
    \/ StartMonitor(1)
    \/ MonitorComplete(1)
    \/ MonitorEnd(1)
    \/ TaskStepOne(OneTask)

SpecOne == InitOne /\ [][NextOne]_vars

FairOne ==
    /\ SpecOne
    /\ WF_vars(SubmitTask(1) \/ StartMonitor(1))
    /\ WF_vars(MonitorComplete(1) \/ MonitorEnd(1))
    /\ WF_vars(TaskStepOne(OneTask))

\* ---------------------------------------------------------------- sse_stream
\* Job ids a client may ask for: the registry's, and one that names no job.
UnknownJob == MaxJobs + 1

\* sse_stream, lines 224-229, up to the generator's first step: a job id
\* without a queue gives the generator that yields the end marker only.
OpenStream(s, j) ==
    /\ streams[s].pc = "closed"
    /\ IF j \in JobIds /\ Created(j)
       THEN streams' = [streams EXCEPT ![s] = [@ EXCEPT !.job = j, !.pc = "init"]]
       ELSE streams' = [streams EXCEPT ![s] =
                [@ EXCEPT !.job = j, !.pc = "ended", !.got = <<"end">>]]
    /\ UNCHANGED <<jobs, job_events, lock, images, create_pc, workq, task, monitor,
                   files, api, status_replies, annVars>>

\* _gen, lines 233-244: take the lock and yield the snapshot; the generator is
\* suspended at the yield inside the `with` block.
StreamInit(s) ==
    /\ streams[s].pc = "init"
    /\ lock = 0
    /\ lock' = 0 - s
    /\ streams' = [streams EXCEPT ![s].pc = "locked", ![s].got = Append(@, "init")]
    /\ UNCHANGED <<jobs, job_events, images, create_pc, workq, task, monitor,
                   files, api, status_replies, annVars>>

\* _gen resumed after the snapshot: the `with` block ends, the lock is freed.
StreamUnlock(s) ==
    /\ streams[s].pc = "locked"
    /\ lock = 0 - s
    /\ lock' = 0
    /\ streams' = [streams EXCEPT ![s].pc = "stream"]
    /\ UNCHANGED <<jobs, job_events, images, create_pc, workq, task, monitor,
                   files, api, status_replies, annVars>>

\* _gen, lines 246-258: q.get takes the oldest payload off the job's queue;
\* the end marker ends the stream, any other payload is yielded.
StreamGet(s) ==
    /\ streams[s].pc = "stream"
    /\ job_events[streams[s].job] # <<>>
    /\ LET payload == Head(job_events[streams[s].job]) IN
        streams' = [streams EXCEPT
            ![s].pc = IF payload.type = "end" THEN "ended" ELSE "stream",
            ![s].got = Append(@, payload.type)]
    /\ job_events' = [job_events EXCEPT ![streams[s].job] = Tail(@)]
    /\ UNCHANGED <<jobs, lock, images, create_pc, workq, task, monitor, files, api, status_replies, annVars>>

\* _gen, lines 249-252: q.get timed out on an empty queue, a keep-alive
\* comment is yielded (counted up to MaxBeats).
StreamHeartbeat(s) ==
    /\ streams[s].pc = "stream"
    /\ job_events[streams[s].job] = <<>>
    /\ streams[s].beats < MaxBeats
    /\ streams' = [streams EXCEPT ![s].beats = @ + 1]
    /\ UNCHANGED <<jobs, job_events, lock, images, create_pc, workq, task, monitor,
                   files, api, status_replies, annVars>>

StreamStep(s) ==
    \/ StreamInit(s)
    \/ StreamUnlock(s)
    \/ StreamGet(s)

\* One job over at most one image, and up to MaxStreams event streams.
StreamBatches == {b \in Batches : Len(b) <= 1}

StreamNext ==
    \/ \E imgs \in StreamBatches, force \in BOOLEAN : CreateJob(1, imgs, force)
    \/ JobStep(max_workers)
    \/ \E s \in StreamIds, j \in JobIds \cup {UnknownJob} :
          /\ \A r \in StreamIds : r < s => streams[r].pc # "closed"
          /\ OpenStream(s, j)
    \/ \E s \in StreamIds : StreamStep(s)
    \/ \E s \in StreamIds : StreamHeartbeat(s)

StreamSpec == Init /\ [][StreamNext]_vars

\* An open stream's generator keeps being resumed by the server.
FairStream == StreamSpec /\ Fairness /\ \A s \in StreamIds : WF_vars(StreamStep(s))

\* ---------------------------------------------------------------- batch_status
\* get_job, lines 219-221: a copy of the job's record, of the empty dict for
\* an id that is not in self.jobs (NoJob stands for the empty dict).
get_job_any(job_id) == jobs[1]

get_job(job_id) == IF job_id \in JobIds THEN jobs[job_id] ELSE NoJob

\* batch_status, lines 710-715: get_job under the lock; an empty record is
\* answered with 404 job_not_found, any other with the record itself.
batch_status(job_id) ==
    /\ Len(status_replies) < MaxQueries
    /\ lock = 0
    /\ LET job == get_job(job_id) IN
       status_replies' = Append(status_replies,
            IF job = NoJob
            THEN [job_id |-> job_id, code |-> 404, error |-> "job_not_found"]
            ELSE [job_id |-> job_id, code |-> 200, job |-> job])
    /\ UNCHANGED <<jobs, job_events, lock, images, create_pc, workq, task, monitor,
                   files, streams, api, annVars>>

\* One job over at most one image, with status queries and event streams
\* for an id that names no job.
QueryNext ==
    \/ \E imgs \in StreamBatches, force \in BOOLEAN : CreateJob(1, imgs, force)
    \/ JobStep(max_workers)
    \/ \E s \in StreamIds :
          /\ \A r \in StreamIds : r < s => streams[r].pc # "closed"
          /\ OpenStream(s, UnknownJob)
    \/ \E job_id \in JobIds \cup {UnknownJob} : batch_status(job_id)

QuerySpec == Init /\ [][QueryNext]_vars

\* ---------------------------------------------------------------- geometry
\* A box is <<x1, y1, x2, y2>>, a point <<x, y>>.
_clamp(v, lo, hi) == Max(lo, Min(hi, v))

\* lines 45-51 (// is the floor division, as \div).
_center_of(box) ==
    <<_clamp((box[1] + box[3]) \div 2, box[1] + 1, box[3] - 1),
      _clamp((box[2] + box[4]) \div 2, box[2] + 1, box[4] - 1)>>

_area(box) == Max(0, box[3] - box[1]) * Max(0, box[4] - box[2])

\* A ratio of integers <<n, d>>, d > 0, and its comparison with another one.
\* The code computes n / d in floating point and compares it with 0.6, 0.5 or
\* -1.0; for the integers at hand the two comparisons agree.
RatGt(p, q) == p[1] * q[2] > q[1] * p[2]

\* lines 56-68
_iou(a, b) ==
    LET iw == Max(0, Min(a[3], b[3]) - Max(a[1], b[1]))
        ih == Max(0, Min(a[4], b[4]) - Max(a[2], b[2]))
        inter == iw * ih
        area_a == (a[3] - a[1]) * (a[4] - a[2])
        area_b == (b[3] - b[1]) * (b[4] - b[2])
    IN  IF inter <= 0 THEN <<0, 1>>
        ELSE <<inter, Max(area_a + area_b - inter, 1)>>

Abs(x) == IF x < 0 THEN -x ELSE x

\* Python's stable sort of a sequence by a key <<k1, k2>> of integers:
\* SortedBy(s, keys) is s ordered by keys[i], the earlier one first on a tie.
KeyLess(k, l) == k[1] < l[1] \/ (k[1] = l[1] /\ k[2] < l[2])

SortedBy(s, keys) ==
    LET n == Len(s)
        Place(i) == 1 + Cardinality({j \in 1..n :
                        KeyLess(keys[j], keys[i]) \/ (keys[j] = keys[i] /\ j < i)})
    IN  [p \in 1..n |-> s[CHOOSE i \in 1..n : Place(i) = p]]

\* ---------------------------------------------------------------- normalizer
\* A raw element of the detector: a bbox, a point or none, a confidence (in
\* tenths) or none.
NoPoint == <<>>
NoConf == -1
NoId == 0

\* line 121: the default of a missing confidence, 0.5.
DefaultConf == 5

\* lines 106-123: an element whose box is empty is skipped; a point the
\* detector supplied is taken as it is, a missing one is the clamped centre.
NormalizeOne(e) ==
    [bbox |-> e.bbox,
     point |-> IF e.point = NoPoint THEN _center_of(e.bbox) ELSE e.point,
     confidence |-> IF e.confidence = NoConf THEN DefaultConf ELSE e.confidence,
     id |-> NoId]

_normalize_omni_elements(raw) ==
    LET ok == SelectSeq(raw, LAMBDA e : ~(e.bbox[3] <= e.bbox[1] \/ e.bbox[4] <= e.bbox[2]))
    IN  [i \in 1..Len(ok) |-> NormalizeOne(ok[i])]

\* ---------------------------------------------------------------- ranker
\* lines 133-138: e is dropped for an already kept k.
IouThreshold == <<3, 5>>
CentreGap == 4

Duplicates(e, k) ==
    \/ RatGt(_iou(e.bbox, k.bbox), IouThreshold)
    \/ /\ Abs(_center_of(e.bbox)[1] - _center_of(k.bbox)[1]) < CentreGap
       /\ Abs(_center_of(e.bbox)[2] - _center_of(k.bbox)[2]) < CentreGap

\* lines 129-140: the greedy pass over the sorted elements.
RECURSIVE DedupAgainstLast(_, _)
DedupAgainstLast(es, kept) ==
    IF es = <<>> THEN kept
    ELSE IF kept # <<>> /\ Duplicates(Head(es), kept[Len(kept)])
         THEN DedupAgainstLast(Tail(es), kept)
         ELSE DedupAgainstLast(Tail(es), Append(kept, Head(es)))

RECURSIVE Dedup(_, _)
Dedup(es, kept) ==
    IF es = <<>> THEN kept
    ELSE IF \E i \in 1..Len(kept) : Duplicates(Head(es), kept[i])
         THEN Dedup(Tail(es), kept)
         ELSE Dedup(Tail(es), Append(kept, Head(es)))

\* lines 141-143
TruncateSkipFirst(kept, lim) ==
    IF lim > 0 THEN SubSeq(kept, 2, Min(lim, Len(kept))) ELSE kept

Truncate(kept, lim) ==
    IF lim > 0 THEN SubSeq(kept, 1, Min(lim, Len(kept))) ELSE kept

\* lines 125-147
_rank_and_limit_hints(es, lim) ==
    IF es = <<>> THEN <<>>
    ELSE
    LET sorted == SortedBy(es, [i \in 1..Len(es) |->
                        <<-es[i].confidence, _area(es[i].bbox)>>])
        cut == Truncate(Dedup(sorted, <<>>), lim)
        reading == SortedBy(cut, [i \in 1..Len(cut) |->
                        <<_center_of(cut[i].bbox)[2], _center_of(cut[i].bbox)[1]>>])
    IN  [i \in 1..Len(reading) |-> [reading[i] EXCEPT !.id = i]]

\* ---------------------------------------------------------------- hint pipeline
\* Raw elements the detector may return: integer boxes, among them one that
\* overlaps another by IoU 0.68, one whose centre is 4 px from another's, one
\* nested in another, one 1 px wide, a wide row, an empty one; points the
\* detector supplied inside and outside of the box; three boxes in a chain,
\* each overlapping the next by IoU 0.58 with centres 8 px apart.
MaxDetections == 3

Raw(bbox, point, confidence) ==
    [bbox |-> bbox, point |-> point, confidence |-> confidence]

Detections ==
    { Raw(<<0, 0, 10, 10>>, NoPoint, 9),
      Raw(<<1, 1, 11, 11>>, NoPoint, 8),
      Raw(<<4, 0, 14, 10>>, NoPoint, 9),
      Raw(<<20, 0, 21, 10>>, NoPoint, 5),
      Raw(<<0, 20, 40, 40>>, NoPoint, NoConf),
      Raw(<<5, 5, 5, 9>>, NoPoint, 9),
      Raw(<<3, 3, 7, 7>>, NoPoint, 7),
      Raw(<<0, 0, 10, 10>>, <<5, 9>>, 9),
      Raw(<<4, 0, 14, 10>>, <<9, 1>>, 8),
      Raw(<<0, 20, 40, 40>>, <<50, 50>>, 6),
      Raw(<<30, 0, 50, 10>>, NoPoint, 7),
      Raw(<<0, 44, 30, 54>>, NoPoint, 6),
      Raw(<<8, 44, 38, 54>>, NoPoint, 6),
      Raw(<<16, 44, 46, 54>>, NoPoint, 6) }

RawLists == UNION {[1..n -> Detections] : n \in 0..MaxDetections}

\* preprocess_max_elements without configuration (line 195), and smaller
\* limits; 0 is no limit.
preprocess_max_elements == 24
Limits == {0, 1, 2, preprocess_max_elements}

\* _compute_preprocess_hints, lines 300-301 and 317-318
Normalize ==
    /\ ann_pc = "raw"
    /\ elems' = _normalize_omni_elements(raw_elems)
    /\ ann_pc' = "normalized"
    /\ UNCHANGED <<raw_elems, max_elements, ranked, reranked, model_out, fixed,
                   sampler, crop_tags, refixed, sampler2, crop_tags2, jobVars>>

\* line 321
Rank ==
    /\ ann_pc = "normalized"
    /\ ranked' = _rank_and_limit_hints(elems, max_elements)
    /\ ann_pc' = "ranked"
    /\ UNCHANGED <<raw_elems, max_elements, elems, reranked, model_out, fixed,
                   sampler, crop_tags, refixed, sampler2, crop_tags2, jobVars>>

\* The ranker run again, on the hints it returned.
Rerank ==
    /\ ann_pc = "ranked"
    /\ reranked' = _rank_and_limit_hints(ranked, max_elements)
    /\ ann_pc' = "reranked"
    /\ UNCHANGED <<raw_elems, max_elements, elems, ranked, model_out, fixed,
                   sampler, crop_tags, refixed, sampler2, crop_tags2, jobVars>>

RankInit ==
    /\ JobsInit
    /\ api = IdleApi(DefaultMaxCompletionTokens)
    /\ ann_pc = "raw"
    /\ raw_elems \in RawLists
    /\ max_elements \in Limits
    /\ elems = <<>>
    /\ ranked = <<>>
    /\ reranked = <<>>
    /\ model_out = <<>>
    /\ fixed = <<>>
    /\ sampler = NoSampler
    /\ crop_tags = <<>>
    /\ refixed = <<>>
    /\ sampler2 = NoSampler
    /\ crop_tags2 = <<>>

RankNext == Normalize \/ Rank \/ Rerank

RankSpec == RankInit /\ [][RankNext]_vars

\* ---------------------------------------------------------------- reconciler
\* An element the model claimed: source_id is <<n>> or NoSid (None), bbox a
\* box or NoBox (anything but a list of four).
NoSid == <<>>
NoBox == <<>>

Claim(source_id, bbox, instruction) ==
    [source_id |-> source_id, bbox |-> bbox, instruction |-> instruction]

\* lines 765-773: the id of the first hint of largest IoU with the claimed
\* box; the first hint's id when no box was claimed; None without hints.
_match_last_best_hint_id(bbox, hints) ==
    IF hints = <<>> THEN NoSid
    ELSE IF bbox = NoBox THEN <<hints[1].id>>
    ELSE LET iou(i) == _iou(bbox, hints[i].bbox)
             best == CHOOSE i \in 1..Len(hints) :
                        /\ \A j \in 1..Len(hints) : ~RatGt(iou(j), iou(i))
                        /\ \A j \in (i + 1)..Len(hints) : RatGt(iou(i), iou(j))
         IN  <<hints[best].id>>

_match_best_hint_id(bbox, hints) ==
    IF hints = <<>> THEN NoSid
    ELSE IF bbox = NoBox THEN <<hints[1].id>>
    ELSE LET iou(i) == _iou(bbox, hints[i].bbox)
             best == CHOOSE i \in 1..Len(hints) :
                        /\ \A j \in 1..Len(hints) : ~RatGt(iou(j), iou(i))
                        /\ \A j \in 1..(i - 1) : RatGt(iou(i), iou(j))
         IN  <<hints[best].id>>

\* lines 727-729
Resolve(el, hints) ==
    IF el.source_id = NoSid THEN _match_best_hint_id(el.bbox, hints)
    ELSE el.source_id

\* lines 722 and 730: id2hint.get(int(sid)), as the index of the hint in
\* `hints` (a later hint replaces an earlier one of the same id), 0 for none.
HintIndexOrFirst(hints, n) ==
    LET is == {i \in 1..Len(hints) : hints[i].id = n}
    IN  IF is = {} THEN 1 ELSE CHOOSE i \in is : \A j \in is : j <= i

HintIndex(hints, n) ==
    LET is == {i \in 1..Len(hints) : hints[i].id = n}
    IN  IF is = {} THEN 0 ELSE CHOOSE i \in is : \A j \in is : j <= i

\* line 742: str.strip of the instruction.
Strip(str) == IF str = " open " THEN "open" ELSE str

\* lines 736-749: the claim with the hint's geometry written over its own.
MergedNextId(el, hint, n) ==
    [instruction |-> Strip(el.instruction),
     bbox |-> hint.bbox,
     point |-> <<_clamp(hint.point[1], hint.bbox[1] + 1, hint.bbox[3] - 1),
                 _clamp(hint.point[2], hint.bbox[2] + 1, hint.bbox[4] - 1)>>,
     source_id |-> n + 1]

Merged(el, hint, n) ==
    [instruction |-> Strip(el.instruction),
     bbox |-> hint.bbox,
     point |-> <<_clamp(hint.point[1], hint.bbox[1] + 1, hint.bbox[3] - 1),
                 _clamp(hint.point[2], hint.bbox[2] + 1, hint.bbox[4] - 1)>>,
     source_id |-> n]

\* lines 726-751: the loop over the claimed elements.
RECURSIVE SnapLoop(_, _, _, _)
SnapLoop(els, hints, seen_ids, acc) ==
    IF els = <<>> THEN acc
    ELSE LET sid == Resolve(Head(els), hints)
             h == IF sid = NoSid THEN 0 ELSE HintIndex(hints, sid[1])
         IN  IF h = 0 \/ sid[1] \in seen_ids
             THEN SnapLoop(Tail(els), hints, seen_ids, acc)
             ELSE SnapLoop(Tail(els), hints, seen_ids \cup {sid[1]},
                           Append(acc, Merged(Head(els), hints[h], sid[1])))

\* lines 753-762
PruneThreshold == <<1, 2>>

RECURSIVE PruneAgainstLast(_, _)
PruneAgainstLast(es, pruned) ==
    IF es = <<>> THEN pruned
    ELSE IF pruned # <<>> /\
            RatGt(_iou(Head(es).bbox, pruned[Len(pruned)].bbox), PruneThreshold)
         THEN PruneAgainstLast(Tail(es), pruned)
         ELSE PruneAgainstLast(Tail(es), Append(pruned, Head(es)))

RECURSIVE Prune(_, _)
Prune(es, pruned) ==
    IF es = <<>> THEN pruned
    ELSE IF \E i \in 1..Len(pruned) :
                RatGt(_iou(Head(es).bbox, pruned[i].bbox), PruneThreshold)
         THEN Prune(Tail(es), pruned)
         ELSE Prune(Tail(es), Append(pruned, Head(es)))

\* lines 721-763 (the element list of the result)
_snap_to_hint_boxes_all(mo, hints) ==
    LET known == SelectSeq(mo, LAMBDA el :
                    /\ Resolve(el, hints) # NoSid
                    /\ HintIndex(hints, Resolve(el, hints)[1]) # 0)
    IN  [i \in 1..Len(known) |->
            Merged(known[i], hints[HintIndex(hints, Resolve(known[i], hints)[1])],
                   Resolve(known[i], hints)[1])]

_snap_to_hint_boxes(mo, hints) == Prune(SnapLoop(mo, hints, {}, <<>>), <<>>)

\* Hint lists that _compute_preprocess_hints hands on to the remote call
\* (annotate_with_hints returns before it for an empty list).
HintLists ==
    {_rank_and_limit_hints(_normalize_omni_elements(r), l) :
        r \in RawLists, l \in Limits} \ {<<>>}

\* What the model may claim: a known id with coordinates of its own, an id no
\* hint has, no id but a box, neither.
MaxClaims == 3
UnknownId == 99

Claims ==
    { Claim(<<1>>, <<2, 2, 8, 8>>, "open"),
      Claim(<<1>>, NoBox, "close"),
      Claim(<<2>>, NoBox, " open "),
      Claim(<<UnknownId>>, <<0, 0, 10, 10>>, "open"),
      Claim(NoSid, <<0, 0, 10, 10>>, "close"),
      Claim(NoSid, <<30, 0, 50, 10>>, "open"),
      Claim(NoSid, NoBox, "close"),
      Claim(<<3>>, NoBox, "open"),
      Claim(NoSid, <<90, 50, 95, 55>>, "open") }

ClaimLists == UNION {[1..n -> Claims] : n \in 0..MaxClaims}

\* _call_openai_api, line 449: the parsed answer of the model.
Answer ==
    /\ ann_pc = "ranked"
    /\ \E mo \in ClaimLists : model_out' = mo
    /\ ann_pc' = "answered"
    /\ UNCHANGED <<raw_elems, max_elements, elems, ranked, reranked, fixed,
                   sampler, crop_tags, refixed, sampler2, crop_tags2, jobVars>>

\* line 451
Snap ==
    /\ ann_pc = "answered"
    /\ fixed' = _snap_to_hint_boxes(model_out, ranked)
    /\ ann_pc' = "snapped"
    /\ UNCHANGED <<raw_elems, max_elements, elems, ranked, reranked, model_out,
                   sampler, crop_tags, refixed, sampler2, crop_tags2, jobVars>>

\* An element of the result read as an element of a response: its source_id,
\* bbox and instruction are those written by the first call.
AsClaim(e) == Claim(<<e.source_id>>, e.bbox, e.instruction)

\* _snap_to_hint_boxes called on the elements it returned, with the same hints.
Resnap ==
    /\ ann_pc = "snapped"
    /\ refixed' = _snap_to_hint_boxes([i \in 1..Len(fixed) |-> AsClaim(fixed[i])], ranked)
    /\ ann_pc' = "resnapped"
    /\ UNCHANGED <<raw_elems, max_elements, elems, ranked, reranked, model_out,
                   fixed, sampler, crop_tags, sampler2, crop_tags2, jobVars>>

\* The hints are those of some detection.
HintsInit ==
    /\ JobsInit
    /\ api = IdleApi(DefaultMaxCompletionTokens)
    /\ ann_pc = "ranked"
    /\ raw_elems = <<>>
    /\ max_elements = 0
    /\ elems = <<>>
    /\ ranked \in HintLists
    /\ reranked = <<>>
    /\ model_out = <<>>
    /\ fixed = <<>>
    /\ sampler = NoSampler
    /\ crop_tags = <<>>
    /\ refixed = <<>>
    /\ sampler2 = NoSampler
    /\ crop_tags2 = <<>>

SnapNext == Answer \/ Snap \/ Resnap

SnapSpec == HintsInit /\ [][SnapNext]_vars

\* ---------------------------------------------------------------- crop sampler
Range(f) == {f[i] : i \in DOMAIN f}

\* lines 70-81, as the square of the distance (the code takes the root, which
\* keeps the order); 1e9 when the hint is alone.
NoNeighbor == 1000000000

_min_neighbor_distance(hints, i) ==
    LET d2(j) == (_center_of(hints[i].bbox)[1] - _center_of(hints[j].bbox)[1]) ^ 2
               + (_center_of(hints[i].bbox)[2] - _center_of(hints[j].bbox)[2]) ^ 2
        others == {d2(j) : j \in (1..Len(hints)) \ {i}}
    IN  IF others = {} THEN NoNeighbor
        ELSE CHOOSE d \in others : \A o \in others : d <= o

\* lines 83-88: ar >= 1.8 and 18 <= h <= 120
_is_row_like(box) ==
    LET w == Max(1, box[3] - box[1])
        h == Max(1, box[4] - box[2])
    IN  5 * w >= 9 * h /\ 18 <= h /\ h <= 120

\* lines 577-579: a setting below 0 counts as 0.
Setting(v) == Max(0, v)

\* lines 608-610: the hints (as indexes, from 1) by confidence, the earlier
\* first on a tie, and the first topk of them.
idx_by_conf(hints) ==
    SortedBy([i \in 1..Len(hints) |-> i],
             [i \in 1..Len(hints) |-> <<-hints[i].confidence, 0>>])

HeadByPosition(hints, topk) ==
    SubSeq([i \in 1..Len(hints) |-> i], 1, Min(topk, Len(hints)))

HeadOf(hints, topk) ==
    SubSeq(idx_by_conf(hints), 1, Min(topk, Len(hints)))

\* line 612
Remaining(hints, head) ==
    SelectSeq([i \in 1..Len(hints) |-> i], LAMBDA i : i \notin Range(head))

\* line 651
SecondSet(hints, keep_idx, dual_topk) ==
    Range(SubSeq(SortedBy(keep_idx, [p \in 1..Len(keep_idx) |->
                    <<_min_neighbor_distance(hints, keep_idx[p]), 0>>]),
                 1, Min(dual_topk, Len(keep_idx))))

\* line 661
KeepSet(keep_idx, max_shards) ==
    Range(SubSeq(keep_idx, 1, Min(max_shards, Len(keep_idx))))

\* The image: W, H of line 659.
img_size == <<100, 60>>

\* lines 686-703: the kind of the second crop.
SecondType(box) ==
    IF _is_row_like(box)
    THEN IF box[1] + box[3] < img_size[1] THEN "dir-right" ELSE "dir-left"
    ELSE "padded"

Tag(id, type) == [id |-> id, type |-> type]

\* lines 663-717: the tags of the crops, hint by hint.
RECURSIVE EmitCrops(_, _, _, _)
EmitCrops(hints, i, keep_set, second_set) ==
    IF i > Len(hints) THEN <<>>
    ELSE (IF i \notin keep_set THEN <<>>
          ELSE IF i \in second_set
               THEN <<Tag(hints[i].id, "tight"), Tag(hints[i].id, SecondType(hints[i].bbox))>>
               ELSE <<Tag(hints[i].id, "tight")>>)
         \o EmitCrops(hints, i + 1, keep_set, second_set)

\* Settings of the sampler: ANNOTATOR_MAX_SHARDS, ANNOTATOR_SHARD_TOPK,
\* ANNOTATOR_DUAL_CROP_TOPK (lines 205-216); any integer may be configured.
MaxShards == 3
MaxTopK == 3
MaxDualTopK == 2

\* ANNOTATOR_SHARD_SEED (line 230): 'auto' unless configured.
SeedSettings == {"auto", "7"}

\* lines 585-602: the seed of random.Random.  'auto' hashes the image's name,
\* its first 1024 bytes and the hint boxes; when that raises (the name of the
\* file has no UTF-8 encoding: the file itself was read at line 326), the
\* seed is None and the generator is seeded from the system.  Any other
\* setting is a seed of its own.
SeedOf(seed_raw, name_encodes) ==
    IF seed_raw \in {"", "auto"}
    THEN IF name_encodes THEN "md5 of image and hints" ELSE "None"
    ELSE "configured"

\* lines 572-628: the settings, the seed, the head and the quota.  For no
\* hints the function returns at once, without a crop.
SelectHead ==
    /\ ann_pc = "ranked"
    /\ IF ranked = <<>>
       THEN /\ ann_pc' = "cropped"
            /\ UNCHANGED sampler
       ELSE /\ ann_pc' = "sampling"
            /\ \E ms \in -1..MaxShards, tk \in -1..MaxTopK, dk \in -1..MaxDualTopK,
                  seed_raw \in SeedSettings, name_encodes \in BOOLEAN :
                  LET head == HeadOf(ranked, Setting(tk)) IN
                  sampler' = [max_shards |-> Setting(ms), topk |-> Setting(tk),
                              dual_topk |-> Setting(dk),
                              seed |-> SeedOf(seed_raw, name_encodes),
                              head |-> head,
                              keep_idx |-> head,
                              population |-> Remaining(ranked, head),
                              quota |-> Setting(ms) - Len(head),
                              picks |-> <<>>]
    /\ UNCHANGED <<raw_elems, max_elements, elems, ranked, reranked, model_out,
                   fixed, crop_tags, refixed, sampler2, crop_tags2, jobVars>>

\* lines 629-648: one turn of the sampling loop.  Every weight is at least
\* 0.01, so the seeded draw can fall on any hint left in the population.
SamplePick ==
    /\ ann_pc = "sampling"
    /\ sampler.population # <<>> /\ sampler.quota > 0
    /\ \E j \in 1..Len(sampler.population) :
          sampler' = [sampler EXCEPT
              !.keep_idx = Append(@, sampler.population[j]),
              !.population = SubSeq(@, 1, j - 1) \o SubSeq(@, j + 1, Len(@)),
              !.quota = @ - 1,
              !.picks = Append(@, j)]
    /\ UNCHANGED <<ann_pc, raw_elems, max_elements, elems, ranked, reranked,
                   model_out, fixed, crop_tags, refixed, sampler2, crop_tags2, jobVars>>

\* lines 650-719: the loop is over; the crops are cut and tagged.
Emit ==
    /\ ann_pc = "sampling"
    /\ ~(sampler.population # <<>> /\ sampler.quota > 0)
    /\ crop_tags' = EmitCrops(ranked, 1, KeepSet(sampler.keep_idx, sampler.max_shards),
                              SecondSet(ranked, sampler.keep_idx, sampler.dual_topk))
    /\ ann_pc' = "cropped"
    /\ UNCHANGED <<raw_elems, max_elements, elems, ranked, reranked, model_out,
                   fixed, sampler, refixed, sampler2, crop_tags2, jobVars>>

\* _build_crops called a second time, for the same image, hints and settings:
\* lines 572-628 give the same seed, head and quota.
SelectHead2 ==
    /\ ann_pc = "cropped"
    /\ ranked # <<>>
    /\ sampler2' = [sampler EXCEPT !.keep_idx = sampler.head,
                                   !.population = Remaining(ranked, sampler.head),
                                   !.quota = sampler.max_shards - Len(sampler.head),
                                   !.picks = <<>>]
    /\ ann_pc' = "sampling2"
    /\ UNCHANGED <<raw_elems, max_elements, elems, ranked, reranked, model_out,
                   fixed, sampler, crop_tags, refixed, crop_tags2, jobVars>>

\* lines 629-648 of the second call: random.Random(seed) repeats the draws of
\* the first call, and with them the picks, unless the seed is None.
SamplePick2 ==
    /\ ann_pc = "sampling2"
    /\ sampler2.population # <<>> /\ sampler2.quota > 0
    /\ \E j \in 1..Len(sampler2.population) :
          /\ sampler2.seed # "None" => j = sampler.picks[Len(sampler2.picks) + 1]
          /\ sampler2' = [sampler2 EXCEPT
                !.keep_idx = Append(@, sampler2.population[j]),
                !.population = SubSeq(@, 1, j - 1) \o SubSeq(@, j + 1, Len(@)),
                !.quota = @ - 1,
                !.picks = Append(@, j)]
    /\ UNCHANGED <<ann_pc, raw_elems, max_elements, elems, ranked, reranked,
                   model_out, fixed, sampler, crop_tags, refixed, crop_tags2, jobVars>>

\* lines 650-719 of the second call
Emit2 ==
    /\ ann_pc = "sampling2"
    /\ ~(sampler2.population # <<>> /\ sampler2.quota > 0)
    /\ crop_tags2' = EmitCrops(ranked, 1, KeepSet(sampler2.keep_idx, sampler2.max_shards),
                               SecondSet(ranked, sampler2.keep_idx, sampler2.dual_topk))
    /\ ann_pc' = "cropped2"
    /\ UNCHANGED <<raw_elems, max_elements, elems, ranked, reranked, model_out,
                   fixed, sampler, crop_tags, refixed, sampler2, jobVars>>

CropInit ==
    /\ JobsInit
    /\ api = IdleApi(DefaultMaxCompletionTokens)
    /\ ann_pc = "ranked"
    /\ raw_elems = <<>>
    /\ max_elements = 0
    /\ elems = <<>>
    /\ ranked \in HintLists \cup {<<>>}
    /\ reranked = <<>>
    /\ model_out = <<>>
    /\ fixed = <<>>
    /\ sampler = NoSampler
    /\ crop_tags = <<>>
    /\ refixed = <<>>
    /\ sampler2 = NoSampler
    /\ crop_tags2 = <<>>

CropNext == SelectHead \/ SamplePick \/ Emit \/ SelectHead2 \/ SamplePick2 \/ Emit2

CropSpec == CropInit /\ [][CropNext]_vars

\* ---------------------------------------------------------------- properties
Recorded(t) == task[t].pc \in {"read", "put", "done"}

Terminated(t) == task[t].pc \in {"done", "crashed"}

\* A task whose run raised an exception: in the path resolution, or in one of
\* the two try blocks.
Raised(t) == task[t].pc = "crashed" \/ task[t].status = "error"

TasksOf(j) == {t \in TaskIds : t[1] = j /\ t[2] <= Len(images[j])}

EventsOf(j, t) == {i \in 1..Len(job_events[j]) : job_events[j][i].task = t}

ResultsOf(j, t) == {i \in 1..Len(jobs[j].results) : jobs[j].results[i].task = t}

\* C1: in a job's event queue no image_done event follows the job's complete
\* event or its end marker.
C1_NoImageDoneAfterComplete ==
    \A j \in JobIds : \A i, k \in 1..Len(job_events[j]) :
        (i < k /\ job_events[j][i].type \in {"complete", "end"})
            => job_events[j][k].type # "image_done"

\* C2: while a job's status is complete, completed = total = success +
\* skipped + errors, the results hold exactly one record for every submitted
\* image, and every submitted task has recorded its outcome.
C2_CompleteMeansAllRecorded ==
    \A j \in JobIds : jobs[j].status = "complete" =>
        /\ jobs[j].completed = jobs[j].total
        /\ jobs[j].total = jobs[j].success + jobs[j].skipped + jobs[j].errors
        /\ jobs[j].total = Len(images[j])
        /\ Len(jobs[j].results) = jobs[j].total
        /\ \A t \in TasksOf(j) :
            /\ Recorded(t)
            /\ Cardinality(ResultsOf(j, t)) = 1
            /\ \A i \in ResultsOf(j, t) : jobs[j].results[i].filename = ImageOf(t)

C2_Witness ==
    /\ jobs[1].status = "complete"
    /\ jobs[1].total = 2
    /\ jobs[1].skipped = 1
    /\ jobs[1].errors = 1

\* C4: every task whose run raised an exception ends with exactly one error
\* outcome: one result record with status error and one image_done event with
\* status error, and its job's counters include it.
C4_ExceptionBecomesError ==
    \A t \in TaskIds : (Terminated(t) /\ Raised(t)) =>
        /\ Cardinality(ResultsOf(JobOf(t), t)) = 1
        /\ \A i \in ResultsOf(JobOf(t), t) : jobs[JobOf(t)].results[i].status = "error"
        /\ \E i \in EventsOf(JobOf(t), t) :
            /\ job_events[JobOf(t)][i].type = "image_done"
            /\ job_events[JobOf(t)][i].status = "error"

\* C8: completed = success + skipped + errors = number of result records,
\* and completed <= total, in every state; every change of a job's counters
\* raises completed by 1 together with exactly one of success, skipped and
\* errors and appends exactly one result record.
CountersAgree(job) ==
    /\ job.completed = job.success + job.skipped + job.errors
    /\ job.completed = Len(job.results)
    /\ job.completed <= job.total

OneOutcome(old, new) ==
    /\ new.completed = old.completed + 1
    /\ (new.success - old.success) + (new.skipped - old.skipped)
            + (new.errors - old.errors) = 1
    /\ new.success >= old.success
    /\ new.skipped >= old.skipped
    /\ new.errors >= old.errors
    /\ Len(new.results) = Len(old.results) + 1
    /\ SubSeq(new.results, 1, Len(old.results)) = old.results
    /\ new.total = old.total

CountersStep ==
    \A j \in JobIds : (Created(j) /\ jobs[j]' # jobs[j]) =>
        \/ OneOutcome(jobs[j], jobs[j]')
        \/ /\ [jobs[j]' EXCEPT !.status = jobs[j].status] = jobs[j]

C8_CountersConsistent ==
    /\ [](\A j \in JobIds : Created(j) => CountersAgree(jobs[j]))
    /\ [][CountersStep]_vars

C8_Witness ==
    /\ jobs[1].completed = 2
    /\ jobs[1].success = 1
    /\ jobs[1].errors = 1
    /\ jobs[1].status = "running"

\* C9: a job's status goes from running to complete only, and once it is
\* complete the job's counters and results never change.
C9_StatusOneWay ==
    [][\A j \in JobIds :
          /\ jobs[j].status = "complete" => jobs[j]' = jobs[j]
          /\ jobs[j].status = "running" => jobs[j]'.status \in {"running", "complete"}
          /\ jobs[j].status = "none" => jobs[j]'.status \in {"none", "running"}]_vars

C9_Witness ==
    /\ jobs[1].status = "complete"
    /\ jobs[1].total = 2
    /\ jobs[1].success = 2
    /\ \E t \in TasksOf(1) : task[t].pc = "put"

\* C10: a task that finds its annotation present, in a job with force false,
\* records skipped; it calls neither the detector nor the remote model, writes
\* no annotation file, and emits one event only, image_done with status
\* skipped; its image counts in the job's total.
SkippedTaskClean(t) ==
    LET j == JobOf(t) IN
    /\ task[t].det = 0
    /\ task[t].remote = 0
    /\ task[t].writes = 0
    /\ Cardinality(EventsOf(j, t)) = task[t].emitted
    /\ task[t].emitted = IF task[t].pc = "done" THEN 1 ELSE 0
    /\ \A i \in EventsOf(j, t) :
          job_events[j][i].type = "image_done" /\ job_events[j][i].status = "skipped"
    /\ Recorded(t) => \A i \in ResultsOf(j, t) : jobs[j].results[i].status = "skipped"
    /\ jobs[j].total = Len(images[j])

SkipDecision ==
    \A t \in TaskIds :
        /\ (task[t].pc = "queued" /\ task[t]'.pc # "queued"
                /\ ~RelativeToRaises(ImageOf(t))
                /\ files[ImageOf(t)] # NoFile /\ ~jobs[JobOf(t)].force)
              => task[t]'.status = "skipped"
        /\ (task[t].status = "skipped" /\ task[t]' # task[t]) => files' = files

C10_SkipPolicy ==
    /\ [](\A t \in TaskIds : task[t].status = "skipped" => SkippedTaskClean(t))
    /\ [][SkipDecision]_vars

C10_Witness ==
    /\ jobs[1].total = 2
    /\ \E t \in TasksOf(1) :
          task[t].status = "skipped" /\ task[t].pc = "done" /\ files[ImageOf(t)] = OldAnnotation
    /\ \E t \in TasksOf(1) : task[t].status = "success" /\ task[t].pc = "done"

HasEvent(j, type) == \E i \in 1..Len(job_events[j]) : job_events[j][i].type = type

\* C3: every created job eventually has status complete, with its complete
\* event and its end marker emitted.
C3_EveryJobCompletes ==
    \A j \in JobIds :
        Created(j) ~> (jobs[j].status = "complete" /\ HasEvent(j, "complete")
                        /\ HasEvent(j, "end"))

\* C5: every stream opened on an existing job delivers the end marker and
\* terminates once the job has completed.
StreamOn(s, j) == streams[s].job = j /\ streams[s].pc # "closed"

C5_EveryStreamEnds ==
    \A s \in StreamIds : \A j \in JobIds :
        (StreamOn(s, j) /\ jobs[j].status = "complete") ~> (streams[s].pc = "ended")

\* C5 as amended: a stream opened on an existing job delivers the end marker
\* and terminates once the job has completed, unless another stream is opened
\* on the same job.
C5_SoleStreamEnds ==
    \A s \in StreamIds : \A j \in JobIds :
        (StreamOn(s, j) /\ jobs[j].status = "complete")
            ~> \/ streams[s].pc = "ended" /\ streams[s].got[Len(streams[s].got)] = "end"
               \/ \E r \in StreamIds \ {s} : StreamOn(r, j)

C5_Witness ==
    /\ jobs[1].status = "complete"
    /\ jobs[1].total = 1
    /\ StreamOn(1, 1)
    /\ streams[1].pc = "ended"
    /\ streams[1].got = <<"init", "preprocess_start", "preprocessed", "request_sent",
                          "image_done", "complete", "end">>
    /\ streams[2].pc = "closed"

\* C6: a first attempt truncated (finish reason length, content empty or
\* unparseable) is followed by exactly one retry; a second truncation raises,
\* which the task records as an error, and the job still becomes complete; an
\* unparseable response without the truncation signal raises at once; no
\* invocation makes more than two attempts.
Truncated(r) == ~r.fail /\ r.finish = "length" /\ r.content \in {"empty", "garbage"}

Unparseable(r) == ~r.fail /\ r.content \in {"empty", "garbage"}

ApiFinished == api.pc \in {"returned", "raised"}

RetryPolicy ==
    /\ Len(api.sent) <= 2
    /\ Len(api.resps) <= Len(api.sent)
    /\ Len(api.sent) <= Len(api.resps) + 1
    /\ (Len(api.resps) >= 1 /\ Truncated(api.resps[1]))
          => IF Len(api.resps) = 1 THEN api.pc \in {"send", "wait"}
             ELSE Len(api.sent) = 2 /\ ApiFinished
    /\ (Len(api.resps) >= 1 /\ ~Truncated(api.resps[1]))
          => Len(api.sent) = 1 /\ ApiFinished
    /\ (Len(api.resps) >= 1 /\ Unparseable(api.resps[1]) /\ ~Truncated(api.resps[1]))
          => api.pc = "raised"
    /\ (Len(api.resps) = 2 /\ Truncated(api.resps[2])) => api.pc = "raised"
    /\ api.pc = "raised" =>
          /\ task[OneTask].status = "error"
          /\ task[OneTask].writes = 0
          /\ Recorded(OneTask) => /\ jobs[1].errors = 1
                                  /\ jobs[1].results[1].status = "error"

C6_TruncationRetry ==
    /\ []RetryPolicy
    /\ (api.pc = "raised") ~> (/\ jobs[1].status = "complete"
                               /\ jobs[1].errors = 1
                               /\ HasEvent(1, "complete"))

C6_Witness ==
    /\ Len(api.resps) = 2
    /\ Truncated(api.resps[1])
    /\ Truncated(api.resps[2])
    /\ api.pc = "raised"
    /\ jobs[1].status = "complete"
    /\ jobs[1].errors = 1

\* C7: the retry that follows a truncation is sent with a token budget larger
\* than the budget of the first attempt.
C7_RetryBudgetLarger ==
    Len(api.sent) = 2 => api.sent[2] > api.sent[1]

\* The types of the events that task t has put on the queue of job j, in queue
\* order.
EventTypes(j, t) ==
    LET sel == SelectSeq(job_events[j], LAMBDA e : e.task = t)
    IN  [i \in 1..Len(sel) |-> sel[i].type]

SuccessEvents == <<"preprocess_start", "preprocessed", "request_sent", "image_done">>

\* C11: the events of an image entry that ended in success are, in queue
\* order, preprocess_start, preprocessed, request_sent, image_done, each
\* exactly once, whatever events of other entries lie between them; until the
\* entry has ended they are a prefix of that sequence.
C11_SuccessEventOrder ==
    \A j \in JobIds : \A t \in TasksOf(j) :
        /\ (task[t].status = "success" /\ task[t].pc = "done")
              => EventTypes(j, t) = SuccessEvents
        /\ (task[t].status \notin {"skipped", "error"} /\ task[t].pc # "crashed")
              => /\ Len(EventTypes(j, t)) <= Len(SuccessEvents)
                 /\ EventTypes(j, t) = SubSeq(SuccessEvents, 1, Len(EventTypes(j, t)))

\* Two entries of one job ended in success, with an event of the second lying
\* between the events of the first.
C11_Witness ==
    \E j \in JobIds : \E t, u \in TasksOf(j) :
        /\ t # u
        /\ task[t].status = "success" /\ task[t].pc = "done"
        /\ task[u].status = "success" /\ task[u].pc = "done"
        /\ \E a, b, c \in 1..Len(job_events[j]) :
              /\ a < b /\ b < c
              /\ job_events[j][a].task = t /\ job_events[j][a].type = "preprocess_start"
              /\ job_events[j][b].task = u
              /\ job_events[j][c].task = t /\ job_events[j][c].type = "image_done"

\* The point p lies strictly inside the box.
StrictlyInside(p, box) ==
    /\ box[1] < p[1] /\ p[1] < box[3]
    /\ box[2] < p[2] /\ p[2] < box[4]

\* C15: every hint the normalizer and ranker produce has x1 < x2, y1 < y2 and
\* its point strictly inside its box, whether the detector supplied the point
\* or it is the clamped centre, boxes 1 px wide or tall included.
C15_HintsWellFormed ==
    \A i \in 1..Len(ranked) :
        /\ ranked[i].bbox[1] < ranked[i].bbox[3]
        /\ ranked[i].bbox[2] < ranked[i].bbox[4]
        /\ StrictlyInside(ranked[i].point, ranked[i].bbox)

\* C16: any two distinct hints of the ranker's output have an IoU of at most
\* 0.6, and their centres are not less than 4 px apart on both axes at once.
C16_HintsApart ==
    \A i, j \in 1..Len(ranked) : i # j =>
        LET a == ranked[i].bbox
            b == ranked[j].bbox
        IN  /\ ~RatGt(_iou(a, b), <<3, 5>>)
            /\ ~(/\ Abs(_center_of(a)[1] - _center_of(b)[1]) < 4
                 /\ Abs(_center_of(a)[2] - _center_of(b)[2]) < 4)

\* The ranker dropped a duplicate and kept two hints whose centres are exactly
\* 4 px apart.
C16_Witness ==
    /\ ann_pc = "ranked"
    /\ max_elements = 0
    /\ Len(ranked) < Len(elems)
    /\ \E i, j \in 1..Len(ranked) :
          /\ i # j
          /\ Abs(_center_of(ranked[i].bbox)[1] - _center_of(ranked[j].bbox)[1]) = 4
          /\ _center_of(ranked[i].bbox)[2] = _center_of(ranked[j].bbox)[2]

\* C17: the K hints of the ranker's output carry the ids 1..K in output order,
\* and that order is the reading order of their points: point.y ascending,
\* then point.x ascending.
C17_IdsInPointOrder ==
    /\ \A i \in 1..Len(ranked) : ranked[i].id = i
    /\ \A i, j \in 1..Len(ranked) : i < j =>
          \/ ranked[i].point[2] < ranked[j].point[2]
          \/ /\ ranked[i].point[2] = ranked[j].point[2]
             /\ ranked[i].point[1] <= ranked[j].point[1]

\* C18: the ranker run on its own output, with the same limit, returns the
\* same hints in the same order with the same ids.
C18_RankIdempotent ==
    ann_pc = "reranked" => reranked = ranked

\* The ranker ran twice after it had dropped a duplicate and cut the list to
\* the limit, and two hints are left.
C18_Witness ==
    /\ ann_pc = "reranked"
    /\ max_elements = 2
    /\ Len(elems) > 2
    /\ Len(Dedup(elems, <<>>)) < Len(elems)
    /\ Len(ranked) = 2

\* The hint of `ranked` whose id is n.
HintOf(n) == ranked[CHOOSE i \in 1..Len(ranked) : ranked[i].id = n]

\* C12: every element of the reconciler's output has the bbox and the point of
\* the hint its source_id names, exactly, whatever the model claimed and for
\* every hint the normalizer and ranker can produce.
C12_GeometryIsTheHints ==
    \A i \in 1..Len(fixed) :
        /\ \E k \in 1..Len(ranked) : ranked[k].id = fixed[i].source_id
        /\ fixed[i].bbox = HintOf(fixed[i].source_id).bbox
        /\ fixed[i].point = HintOf(fixed[i].source_id).point

\* C13: no two elements of a reconciled annotation share a source_id; of the
\* claims that resolve to one hint, by source_id or by IoU, the first is the
\* one accepted.
C13_OneElementPerHint ==
    ann_pc = "snapped" =>
        /\ \A i, j \in 1..Len(fixed) :
              fixed[i].source_id = fixed[j].source_id => i = j
        /\ \A i \in 1..Len(fixed) :
              LET first == CHOOSE c \in 1..Len(model_out) :
                              /\ Resolve(model_out[c], ranked) = <<fixed[i].source_id>>
                              /\ \A d \in 1..(c - 1) :
                                    Resolve(model_out[d], ranked) # <<fixed[i].source_id>>
              IN  fixed[i].instruction = Strip(model_out[first].instruction)

\* Two claims resolved to one hint, the first by IoU and the second by its
\* source_id, with different instructions, and the hint has an element.
C13_Witness ==
    /\ ann_pc = "snapped"
    /\ \E c, d \in 1..Len(model_out) :
          /\ c < d
          /\ model_out[c].source_id = NoSid
          /\ model_out[d].source_id # NoSid
          /\ Resolve(model_out[c], ranked) = model_out[d].source_id
          /\ Strip(model_out[c].instruction) # Strip(model_out[d].instruction)
          /\ \E i \in 1..Len(fixed) : <<fixed[i].source_id>> = model_out[d].source_id

\* The claim names, by its source_id, a hint that is not there.
UnknownHintReference(el, hints) ==
    el.source_id # NoSid /\ \A k \in 1..Len(hints) : hints[k].id # el.source_id[1]

\* C14: a claim whose source_id names no hint is dropped, and the other claims
\* of the response are reconciled as if it were not there; a response of such
\* claims only gives no element.
C14_UnknownIdDropped ==
    ann_pc = "snapped" =>
        /\ fixed = _snap_to_hint_boxes(
                      SelectSeq(model_out, LAMBDA el : ~UnknownHintReference(el, ranked)),
                      ranked)
        /\ \A i \in 1..Len(fixed) :
              \E k \in 1..Len(ranked) : ranked[k].id = fixed[i].source_id
        /\ (\A c \in 1..Len(model_out) : UnknownHintReference(model_out[c], ranked))
              => fixed = <<>>

\* A response with a claim of an unknown id before a claim that was accepted.
C14_Witness ==
    /\ ann_pc = "snapped"
    /\ Len(model_out) >= 2
    /\ UnknownHintReference(model_out[1], ranked)
    /\ fixed # <<>>

\* C19: the crops emitted for an image, tight and secondary ones together,
\* are never more than the configured maximum, whatever the hints and the
\* head and secondary settings.
C19_CropsWithinMax ==
    ann_pc = "cropped" => Len(crop_tags) <= sampler.max_shards

\* The hints (as indexes of `ranked`) that got a tight crop.
Cropped ==
    {i \in 1..Len(ranked) : \E c \in 1..Len(crop_tags) :
        crop_tags[c] = Tag(ranked[i].id, "tight")}

\* S holds m of the hints, or all of them if they are fewer, and none left
\* out has a higher confidence than one in S.
HighestConfidence(S, m) ==
    /\ S \subseteq 1..Len(ranked)
    /\ Cardinality(S) = Min(m, Len(ranked))
    /\ \A i \in S : \A j \in (1..Len(ranked)) \ S :
          ranked[i].confidence >= ranked[j].confidence

\* C20: with a budget of at least headTopK, the headTopK hints of highest
\* confidence all get a crop, whatever the sampling drew; with a budget below
\* the size of the head, the hints that get a crop are exactly the `budget`
\* hints of highest confidence, none of them sampled; no hints, or a budget of
\* zero, gives no crop.
C20_HeadHasPriority ==
    ann_pc = "cropped" =>
        /\ (ranked # <<>> /\ sampler.max_shards >= sampler.topk) =>
              /\ HighestConfidence(Range(sampler.head), sampler.topk)
              /\ Range(sampler.head) \subseteq Cropped
        /\ (ranked # <<>> /\ sampler.max_shards < Len(sampler.head)) =>
              /\ HighestConfidence(Cropped, sampler.max_shards)
              /\ Cardinality(Cropped) = sampler.max_shards
              /\ Cropped \subseteq Range(sampler.head)
              /\ sampler.keep_idx = sampler.head
        /\ (ranked = <<>> \/ sampler.max_shards = 0) => crop_tags = <<>>

\* Three hints, a head of one and a budget of two: the sampling drew a hint of
\* higher confidence than another one, and the head has its crop.
C20_Witness ==
    /\ ann_pc = "cropped"
    /\ Len(ranked) = 3
    /\ sampler.topk = 1
    /\ sampler.max_shards = 2
    /\ Len(sampler.keep_idx) = 2
    /\ Range(sampler.head) \subseteq Cropped
    /\ \E j \in 1..3 : /\ j \notin Range(sampler.keep_idx)
                       /\ ranked[j].confidence > ranked[sampler.keep_idx[2]].confidence

\* The claims the first pass accepted, in the order of the response.
Accepted == SnapLoop(model_out, ranked, {}, <<>>)

InFixed(e) == \E i \in 1..Len(fixed) : fixed[i] = e

Overlap(a, b) == RatGt(_iou(a.bbox, b.bbox), <<1, 2>>)

\* The elements of `fixed` are elements of Accepted, in the same order.
InAcceptanceOrder ==
    \A i, j \in 1..Len(fixed) : i < j =>
        \E p, q \in 1..Len(Accepted) :
            p < q /\ Accepted[p] = fixed[i] /\ Accepted[q] = fixed[j]

\* C24 as stated: any two elements of the output have an IoU of at most 0.5;
\* of any two accepted claims whose hint boxes overlap by more, the earlier is
\* kept and the later dropped; the output keeps the order of the response.
C24_EarlierOfAnyPairKept ==
    ann_pc = "snapped" =>
        /\ \A i, j \in 1..Len(fixed) : i # j => ~Overlap(fixed[i], fixed[j])
        /\ \A p, q \in 1..Len(Accepted) :
              (p < q /\ Overlap(Accepted[p], Accepted[q]))
                  => InFixed(Accepted[p]) /\ ~InFixed(Accepted[q])
        /\ InAcceptanceOrder

\* C24, amended: any two elements of the output have an IoU of at most 0.5; an
\* accepted claim is dropped exactly when its hint box overlaps by more than
\* 0.5 the box of an earlier claim that was kept; the output keeps the order
\* of the response.
C24_LaterOfKeptDropped ==
    ann_pc = "snapped" =>
        /\ \A i, j \in 1..Len(fixed) : i # j => ~Overlap(fixed[i], fixed[j])
        /\ \A q \in 1..Len(Accepted) :
              ~InFixed(Accepted[q]) <=>
                  \E p \in 1..(q - 1) :
                      InFixed(Accepted[p]) /\ Overlap(Accepted[p], Accepted[q])
        /\ InAcceptanceOrder

\* Three claims were accepted for a chain of hints: the second is dropped for
\* the first, and the third is kept although it overlaps the second.
C24_Witness ==
    /\ ann_pc = "snapped"
    /\ Len(Accepted) = 3
    /\ Overlap(Accepted[1], Accepted[2])
    /\ Overlap(Accepted[2], Accepted[3])
    /\ fixed = <<Accepted[1], Accepted[3]>>

\* The IoU of a claimed box with the box of hint k; 0 when no box was claimed.
ClaimIou(el, k) == IF el.bbox = NoBox THEN <<0, 1>> ELSE _iou(el.bbox, ranked[k].bbox)

\* Hint k has the largest IoU with the claim, and the lowest id of those that
\* have it.
BestLowest(el, k) ==
    \A m \in 1..Len(ranked) :
        /\ ~RatGt(ClaimIou(el, m), ClaimIou(el, k))
        /\ (~RatGt(ClaimIou(el, k), ClaimIou(el, m))) => ranked[k].id <= ranked[m].id

\* C25: a claim without source_id is bound to the hint of largest IoU with the
\* claimed box, the one of lowest id among those tied (all IoUs being 0
\* included); the bound id is then treated as an explicit one: the claim is
\* accepted unless an earlier claim of the response took the same hint.
C25_BestMatchLowestId ==
    ann_pc = "snapped" =>
        \A c \in 1..Len(model_out) : model_out[c].source_id = NoSid =>
            \E k \in 1..Len(ranked) :
                /\ BestLowest(model_out[c], k)
                /\ Resolve(model_out[c], ranked) = <<ranked[k].id>>
                /\ LET first == CHOOSE d \in 1..c :
                                    /\ Resolve(model_out[d], ranked) = <<ranked[k].id>>
                                    /\ \A e \in 1..(d - 1) :
                                          Resolve(model_out[e], ranked) # <<ranked[k].id>>
                       as == {a \in 1..Len(Accepted) :
                                Accepted[a].source_id = ranked[k].id}
                   IN  /\ Cardinality(as) = 1
                       /\ \A a \in as : Accepted[a].instruction =
                                             Strip(model_out[first].instruction)

\* A claim without source_id whose box touches none of three hints was bound
\* to hint 1 and accepted.
C25_Witness ==
    /\ ann_pc = "snapped"
    /\ Len(ranked) = 3
    /\ model_out = <<Claim(NoSid, <<90, 50, 95, 55>>, "open")>>
    /\ Len(fixed) = 1
    /\ fixed[1].source_id = 1

\* C29: the reconciler applied to its own output, with the same hints, returns
\* the same elements in the same order, with the same bbox, point, source_id
\* and instruction.
C29_SnapIdempotent ==
    ann_pc = "resnapped" => refixed = fixed

\* The reconciler ran twice on a response of which it had dropped a claim and
\* kept two, one of them with an instruction it stripped.
C29_Witness ==
    /\ ann_pc = "resnapped"
    /\ Len(model_out) = 3
    /\ Len(fixed) = 2
    /\ \E c \in 1..3 : /\ model_out[c].instruction = " open "
                       /\ Resolve(model_out[c], ranked) = <<fixed[2].source_id>>
                       /\ fixed[2].instruction = "open"

\* The hints (as indexes of `ranked`) that got a second crop.
SecondCropped ==
    {i \in 1..Len(ranked) : \E c \in 1..Len(crop_tags) :
        crop_tags[c].id = ranked[i].id /\ crop_tags[c].type # "tight"}

\* C26: of the hints that got a tight crop, exactly the min(secondaryTopK,
\* number of them) of smallest nearest-neighbour distance get a second crop,
\* none more than one, and each second crop directly follows the tight crop
\* of its hint; also with a budget below headTopK.
C26_SecondCropsNearest ==
    (ann_pc = "cropped" /\ ranked # <<>>) =>
        /\ SecondCropped \subseteq Cropped
        /\ Cardinality(SecondCropped) = Min(sampler.dual_topk, Cardinality(Cropped))
        /\ \A i \in SecondCropped : \A j \in Cropped \ SecondCropped :
              _min_neighbor_distance(ranked, i) <= _min_neighbor_distance(ranked, j)
        /\ \A c, d \in 1..Len(crop_tags) :
              (crop_tags[c].type # "tight" /\ crop_tags[d].type # "tight"
                  /\ crop_tags[c].id = crop_tags[d].id) => c = d
        /\ \A c \in 1..Len(crop_tags) : crop_tags[c].type # "tight" =>
              c > 1 /\ crop_tags[c - 1] = Tag(crop_tags[c].id, "tight")

\* C21: two calls of the sampler for the same image, the same hints and the
\* same settings keep the same hints and emit the same crop tags, without a
\* configured seed as well.
C21_SamplingRepeats ==
    ann_pc = "cropped2" =>
        /\ KeepSet(sampler2.keep_idx, sampler2.max_shards)
              = KeepSet(sampler.keep_idx, sampler.max_shards)
        /\ crop_tags2 = crop_tags

\* ---------------------------------------------------------------- degraded detector
Degraded == {"unavailable", "failed", "no valid candidate"}

\* C22: when the detector is unavailable, fails or yields no valid candidate,
\* `preprocessed` reports zero hints, no remote labeling request is ever sent
\* for the image, and, the image file being one that Image.open reads, the
\* task raises nothing: it writes the annotation and the job records it as
\* `success`, not `error`.
C22_DegradedDetectorSucceeds ==
    LET t == OneTask IN
    task[t].detector \in Degraded =>
        /\ \A i \in 1..Len(job_events[1]) :
              job_events[1][i].type = "preprocessed" => job_events[1][i].hints = 0
        /\ task[t].remote = 0
        /\ api.sent = <<>>
        /\ task[t].opened = 1 => task[t].status # "error"
        /\ (task[t].opened = 1 /\ Recorded(t)) =>
              /\ task[t].status = "success"
              /\ files[ImageOf(t)] = FileOf(t)
              /\ jobs[1].success = 1
              /\ jobs[1].errors = 0
              /\ jobs[1].results = <<[task |-> t, filename |-> ImageOf(t),
                                      status |-> "success"]>>

C22_Witness ==
    /\ task[OneTask].detector = "failed"
    /\ task[OneTask].pc = "done"
    /\ task[OneTask].remote = 0
    /\ jobs[1].success = 1
    /\ \E i \in 1..Len(job_events[1]) :
          /\ job_events[1][i].type = "image_done"
          /\ job_events[1][i].status = "success"

\* ---------------------------------------------------------------- unknown job id
\* The step is sse_stream or batch_status called with an id that names no job.
UnknownJobAsked ==
    \/ \E s \in StreamIds :
          /\ streams[s].pc = "closed"
          /\ streams'[s].pc # "closed"
          /\ streams'[s].job = UnknownJob
    \/ /\ Len(status_replies') = Len(status_replies) + 1
       /\ status_replies'[Len(status_replies')].job_id = UnknownJob

\* C23: for a job id that is not in the registry the event stream yields the
\* end marker and nothing else and is over, the status query answers
\* not-found, and the call leaves every job's record and event queue (and the
\* registry, the tasks and the stored annotations) as they were.
C23_UnknownJobHarmless ==
    /\ [](\A s \in StreamIds :
            (streams[s].pc # "closed" /\ streams[s].job = UnknownJob) =>
                streams[s].pc = "ended" /\ streams[s].got = <<"end">>)
    /\ [](\A i \in 1..Len(status_replies) :
            status_replies[i].job_id = UnknownJob =>
                /\ status_replies[i].code = 404
                /\ status_replies[i].error = "job_not_found")
    /\ [][UnknownJobAsked =>
            UNCHANGED <<jobs, job_events, lock, images, create_pc, workq, task,
                        monitor, files>>]_vars

C23_Witness ==
    /\ Created(1)
    /\ job_events[1] # <<>>
    /\ \E s \in StreamIds : streams[s].job = UnknownJob /\ streams[s].got = <<"end">>
    /\ \E i \in 1..Len(status_replies) :
          status_replies[i].job_id = UnknownJob /\ status_replies[i].code = 404
    /\ \E i \in 1..Len(status_replies) : status_replies[i].code = 200

\* ---------------------------------------------------------------- image_done counters
\* The `completed` values of the image_done events of job j, in queue order.
DoneCounts(j) ==
    LET sel == SelectSeq(job_events[j], LAMBDA e : e.type = "image_done")
    IN  [i \in 1..Len(sel) |-> sel[i].completed]

\* C27: the k-th image_done event in a job's queue carries completed = k, so
\* the values carried by successive image_done events strictly increase.
C27_ImageDoneCountsUp ==
    \A j \in JobIds : \A k \in 1..Len(DoneCounts(j)) : DoneCounts(j)[k] = k

\* ---------------------------------------------------------------- one pipeline run per image
\* Task t went through the pipeline: detection, a remote labeling call and
\* the write of the annotation.
Pipelined(t) == task[t].det = 1 /\ task[t].remote = 1 /\ task[t].writes = 1

\* C28: with force false, of the tasks submitted for one image that had no
\* annotation at most one goes through the pipeline (the others are to record
\* `skipped`).
C28_PipelinedAtMostOnce ==
    \A t1, t2 \in TaskIds :
        (/\ t1 # t2
         /\ t1 \in TasksOf(t1[1]) /\ t2 \in TasksOf(t2[1])
         /\ ~jobs[t1[1]].force /\ ~jobs[t2[1]].force
         /\ ImageOf(t1) = ImageOf(t2)
         /\ Pipelined(t1))
        => ~Pipelined(t2)

====
